---- MODULE Spec2Model ----
(***************************************************************************)
(* Google Cloud SQL / AlloyDB log ingestion of the pganalyze collector     *)
(* (input/system/google_cloudsql/logs.go): SetupLogSubscriber, the Pub/Sub *)
(* receive goroutines started by setupPubSubSubscriber and the transformer *)
(* goroutine started by setupLogTransformer, under one context and one     *)
(* sync.WaitGroup.                                                         *)
(*                                                                         *)
(* Strings whose characters the code inspects (strings.Count, SplitN,      *)
(* HasSuffix) are sequences of tokens in which "/" is a token of its own.  *)
(* Instants are integers; 0 is the zero time.Time, for which IsZero holds. *)
(***************************************************************************)
EXTENDS Integers, Sequences, FiniteSets, TLC

(***************************************************************************)
(* Bounds of the model.                                                    *)
(***************************************************************************)
\* Servers passed to SetupLogSubscriber.
NumServers == 3
\* Pub/Sub messages handed to callbacks in one run.
MaxMsgs == 2
\* Callbacks one sub.Receive call runs concurrently.
MaxCallbacks == 2
\* Capacity of gcpLogStream (state.LogStreamBufferLen).
LogStreamBufferLen == 1
\* Capacity of parsedLogStream, which the caller makes.
OutBufferLen == 1
\* The clock stops advancing at MaxTime.
MaxTime == 4

\* 1 * time.Minute, the unit of the clock.
Minute == 1

(***************************************************************************)
(* strings                                                                 *)
(***************************************************************************)
RECURSIVE Count(_, _)
\* strings.Count(s, sep) for a one-token separator.
Count(s, sep) ==
    IF s = <<>> THEN 0
    ELSE (IF Head(s) = sep THEN 1 ELSE 0) + Count(Tail(s), sep)

RECURSIVE IndexOf(_, _, _)
\* The position of the first sep in s at or after i, Len(s) + 1 when none.
IndexOf(s, sep, i) ==
    IF i > Len(s) THEN Len(s) + 1
    ELSE IF s[i] = sep THEN i
    ELSE IndexOf(s, sep, i + 1)

RECURSIVE SplitN(_, _, _)
\* strings.SplitN(s, sep, n) for n > 0: at most n parts, the last the rest.
SplitN(s, sep, n) ==
    LET k == IndexOf(s, sep, 1) IN
    IF n = 1 \/ k > Len(s) THEN <<s>>
    ELSE <<SubSeq(s, 1, k - 1)>> \o SplitN(SubSeq(s, k + 1, Len(s)), sep, n - 1)

\* strings.HasSuffix(s, suffix)
HasSuffix(s, suffix) ==
    /\ Len(s) >= Len(suffix)
    /\ SubSeq(s, Len(s) - Len(suffix) + 1, Len(s)) = suffix

(***************************************************************************)
(* time                                                                    *)
(***************************************************************************)
\* The instants RFC 3339 strings of the model denote.
TimestampValue ==
    [ts \in {"0001-01-01T00:00:00Z", "T1", "T2", "T3"} |->
        CASE ts = "0001-01-01T00:00:00Z" -> 0
          [] ts = "T1" -> 1 * Minute
          [] ts = "T2" -> 2 * Minute
          [] ts = "T3" -> 3 * Minute]

\* The timestamp strings a message may carry: the last two do not parse.
TimestampStrings == DOMAIN TimestampValue \cup {"", "yesterday"}

\* t, _ := time.Parse(time.RFC3339Nano, s): the zero time on an error.
ParseTime(s) == IF s \in DOMAIN TimestampValue THEN TimestampValue[s] ELSE 0

\* No instant is the zero time.
IsZeroNever(t) == FALSE

\* time.Time.IsZero
IsZero(t) == t = 0

\* time.Time.Before
Before(t, u) == t < u

(***************************************************************************)
(* configuration: state.Server, config.ServerConfig                        *)
(***************************************************************************)
SubA == <<"projects", "/", "p1", "/", "subscriptions", "/", "a">>
SubB == <<"projects", "/", "p1", "/", "subscriptions", "/", "b">>
\* Two separators, not three: an unsupported subscription format.
SubBad == <<"p1", "/", "subscriptions", "/", "a">>
\* GcpPubsubSubscription == "": the server has no log subscription.
SubNone == <<>>

Subscriptions == {SubNone, SubA, SubB, SubBad}

\* server.Config of the i-th server, with subscription sub. The first two
\* servers monitor the same instance, the others a second one.
ServerConfig(i, sub) ==
    [ GcpPubsubSubscription |-> sub,
      GcpProjectID          |-> <<"p1">>,
      GcpCloudSQLInstanceID |-> IF i <= 2 THEN "i1" ELSE "i2",
      Identifier            |-> i ]

\* The servers of a running collector: two share subscription a.
RunningServers ==
    [i \in 1..NumServers |-> ServerConfig(i, IF i <= 2 THEN SubA ELSE SubB)]

\* Every list of NumServers servers over Subscriptions.
ServerLists ==
    { [i \in 1..NumServers |-> ServerConfig(i, f[i])] :
        f \in [1..NumServers -> Subscriptions] }

(***************************************************************************)
(* Pub/Sub messages: googleLogMessage and the JSON that carries it         *)
(***************************************************************************)
PostgresLog == <<"postgres", ".", "log">>
LogNamePg == <<"projects", "/", "p1", "/", "logs", "/">> \o PostgresLog
LogNamePgRotated == LogNamePg \o <<".", "1">>
LogNameOther == <<"projects", "/", "p1", "/", "logs", "/", "mysql", ".", "err">>

\* A map lookup's two results (v, ok := m[key]); v is the zero value when
\* the key is absent.
Present(v) == [ok |-> TRUE, v |-> v]
AbsentSeq == [ok |-> FALSE, v |-> <<>>]
AbsentStr == [ok |-> FALSE, v |-> ""]

\* The zero googleLogMessage: what json.Unmarshal leaves on a syntax error.
ZeroMsg ==
    [ ResourceType |-> "", LogName |-> <<>>,
      Labels |-> [resource_container |-> AbsentSeq, cluster_id |-> AbsentStr],
      TextPayload |-> "", Timestamp |-> "" ]

\* A Cloud SQL log message of instance inst in project proj.
LogMsg(proj, inst, ts, text) ==
    [ ResourceType |-> "cloudsql_database", LogName |-> LogNamePg,
      Labels |-> [ resource_container |-> Present(<<"projects", "/", proj>>),
                   cluster_id |-> Present(inst) ],
      TextPayload |-> text, Timestamp |-> ts ]

GoodText == "LOG:  checkpoint starting"
BadText == "not a log line"
M0 == LogMsg("p1", "i1", "T3", GoodText)

\* Messages every filter accepts.
AcceptedMsgs ==
    { M0,
      LogMsg("p1", "i2", "T3", GoodText),
      LogMsg("p2", "i1", "T3", GoodText),
      LogMsg("p1", "i1", "T1", GoodText),
      LogMsg("p1", "i1", "T2", GoodText),
      LogMsg("p1", "i1", "yesterday", GoodText),
      LogMsg("p1", "i1", "T3", BadText),
      [LogMsg("p1", "i2", "0001-01-01T00:00:00Z", GoodText)
          EXCEPT !.ResourceType = "alloydb.googleapis.com/Instance"] }

\* Messages some filter rejects, each M0 with one field changed.
RejectedMsgs ==
    { [M0 EXCEPT !.ResourceType = "gce_instance"],
      [M0 EXCEPT !.LogName = LogNameOther],
      [M0 EXCEPT !.LogName = LogNamePgRotated],
      [M0 EXCEPT !.Labels.resource_container = AbsentSeq],
      [M0 EXCEPT !.Labels.resource_container = Present(<<"p1">>)],
      [M0 EXCEPT !.Labels.resource_container =
                    Present(<<"projects", "/", "p1", "/", "x">>)],
      [M0 EXCEPT !.Labels.cluster_id = AbsentStr] }

\* pubsubMsg.Data: JSON that decodes ("ok"), JSON with a field of the wrong
\* type, which json.Unmarshal reports after filling the other fields
\* ("type"), and bytes that are no JSON ("syntax").
PubsubData ==
    { [json |-> "ok", fields |-> m] : m \in AcceptedMsgs \cup RejectedMsgs }
    \cup { [json |-> "type", fields |-> M0], [json |-> "syntax", fields |-> ZeroMsg] }

\* A log line of both servers of instance i1, and one too old to ingest.
RunningPool ==
    { [json |-> "ok", fields |-> M0],
      [json |-> "ok", fields |-> LogMsg("p1", "i1", "T1", GoodText)] }

\* err = json.Unmarshal(pubsubMsg.Data, &msg)
Unmarshal(d) ==
    [ msg |-> d.fields, err |-> IF d.json = "ok" THEN "nil" ELSE "err" ]

\* The callback's filters, lines 77-93: TRUE when the message goes on.
Accepts(msg) ==
    /\ ~ ( msg.ResourceType # "cloudsql_database"
           /\ msg.ResourceType # "alloydb.googleapis.com/Instance" )
    /\ HasSuffix(msg.LogName, PostgresLog)
    /\ ~ ( ~ msg.Labels.resource_container.ok
           \/ Count(msg.Labels.resource_container.v, "/") # 1 )
    /\ msg.Labels.cluster_id.ok

\* The LogStreamItem the callback sends, lines 88-102.
LogStreamItem(msg) ==
    LET parts == SplitN(msg.Labels.resource_container.v, "/", 2) IN
    [ GcpProjectID          |-> parts[2],
      GcpCloudSQLInstanceID |-> msg.Labels.cluster_id.v,
      Content               |-> msg.TextPayload,
      OccurredAt            |-> ParseTime(msg.Timestamp) ]

(***************************************************************************)
(* logs.ParseLogLineWithPrefix, of package logs                            *)
(***************************************************************************)
\* in.Content + "\n"
WithNewline(content) == <<content, "\n">>

\* logs.ParseLogLineWithPrefix(prefix, line): the parsed line and ok. A line
\* parses when it ends with its terminator and starts with a log level.
ParseLogLineWithPrefix(prefix, line) ==
    [ ok |-> Len(line) = 2 /\ line[2] = "\n" /\ line[1] = GoodText,
      logLine |-> [Content |-> line, OccurredAt |-> 0] ]

(***************************************************************************)
(* state                                                                   *)
(***************************************************************************)
VARIABLES
    servers,            \* SetupLogSubscriber's servers argument
    testRun,            \* globalCollectionOpts.TestRun
    newClientErr,       \* the servers for which pubsub.NewClient fails
    pool,               \* the message data the subscriptions deliver
    budget,             \* how many messages they deliver in all
    pc,                 \* SetupLogSubscriber: "init", "loop", "returned"
    idx,                \* the server the loop of line 124 is at
    retErr,             \* what SetupLogSubscriber returned: "nil", "err"
    gcpPubSubHandlers,  \* the keys of the map of line 122
    warned,             \* the servers PrintWarning of line 137 named
    attempted,          \* the servers setupPubSubSubscriber was called for
    adapters,           \* the goroutines of line 63, in the order started
    gcpLogStream,       \* the channel of line 118
    tpc,                \* the transformer goroutine of line 150
    linesNewerThan,     \* line 154
    cur,                \* the item the transformer took last
    ti,                 \* the server the loop of line 180 is at
    sent,               \* the Identifiers sent for cur, in order
    parsedLogStream,    \* the caller's channel of parsed lines
    cancelled,          \* ctx is done
    wg,                 \* the WaitGroup's counter
    now,                \* the clock, up to the transformer's reading of it
    nmsgs,              \* the Pub/Sub messages handed to callbacks so far
    acks                \* acks[i]: how often message i was acknowledged

vars ==
    << servers, testRun, newClientErr, pool, budget, pc, idx, retErr, gcpPubSubHandlers,
       warned, attempted, adapters, gcpLogStream, tpc, linesNewerThan, cur, ti,
       sent, parsedLogStream, cancelled, wg, now, nmsgs, acks >>

setupVars == <<pc, idx, retErr, gcpPubSubHandlers, warned, attempted>>
inputVars == <<servers, testRun, newClientErr, pool, budget>>
transformerVars == <<tpc, linesNewerThan, cur, ti, sent>>

\* No item: cur before the transformer has taken one.
NoItem ==
    [ GcpProjectID |-> <<>>, GcpCloudSQLInstanceID |-> "", Content |-> "",
      OccurredAt |-> 0, id |-> 0, ts |-> "", from |-> 0 ]

InitState ==
    /\ pc = "init" /\ idx = 1 /\ retErr = "nil"
    /\ gcpPubSubHandlers = {} /\ warned = {} /\ attempted = {}
    /\ adapters = <<>> /\ gcpLogStream = <<>>
    /\ tpc = "none" /\ linesNewerThan = 0 /\ cur = NoItem /\ ti = 1
    /\ sent = <<>> /\ parsedLogStream = <<>>
    /\ cancelled = FALSE /\ wg = 0 /\ now = 3 * Minute /\ nmsgs = 0
    /\ acks = <<>>

\* A running collector: every subscription is well formed and its client
\* is created.
Init ==
    /\ servers = RunningServers
    /\ testRun = FALSE
    /\ newClientErr = {}
    /\ pool = RunningPool
    /\ budget = MaxMsgs
    /\ InitState

\* The servers of ss whose subscription has the supported format.
WellFormed(ss) ==
    { i \in 1..Len(ss) : Count(ss[i].GcpPubsubSubscription, "/") = 3 }

\* Any configuration: every list of servers, test run or not, and any of
\* the well-formed subscriptions failing to get its client; one message is
\* delivered.
SetupInit ==
    /\ servers \in ServerLists
    /\ testRun \in BOOLEAN
    /\ newClientErr \in SUBSET WellFormed(servers)
    /\ pool = {[json |-> "ok", fields |-> M0]}
    /\ budget = 1
    /\ InitState

\* A collector whose servers share one subscription, which delivers
\* messages of any kind: accepted, rejected by a filter, or not decoding.
FilterInit ==
    /\ servers = [i \in 1..NumServers |-> ServerConfig(i, SubA)]
    /\ testRun = FALSE
    /\ newClientErr = {}
    /\ pool = PubsubData
    /\ budget = MaxMsgs
    /\ InitState

\* A collector whose servers share one subscription, which delivers two
\* messages, each any accepted message.
RouteInit ==
    /\ servers = [i \in 1..NumServers |-> ServerConfig(i, SubA)]
    /\ testRun = FALSE
    /\ newClientErr = {}
    /\ pool = { [json |-> "ok", fields |-> m] : m \in AcceptedMsgs }
    /\ budget = 2
    /\ InitState

(***************************************************************************)
(* SetupLogSubscriber, lines 117-146                                       *)
(***************************************************************************)
\* Lines 118-122: the channel, the transformer and the empty map.
\* setupLogTransformer adds the transformer to the WaitGroup before its
\* goroutine starts (line 149).
SetupStart ==
    /\ pc = "init"
    /\ pc' = "loop"
    /\ tpc' = "spawned"
    /\ wg' = wg + 1
    /\ UNCHANGED << inputVars, idx, retErr, gcpPubSubHandlers, warned, attempted,
                    adapters, gcpLogStream, linesNewerThan, cur, ti, sent,
                    parsedLogStream, cancelled, now, nmsgs, acks >>

\* setupPubSubSubscriber's result for server i, lines 43-60: "format",
\* "client" or "nil".
SetupError(i) ==
    IF Count(servers[i].GcpPubsubSubscription, "/") # 3 THEN "format"
    ELSE IF i \in newClientErr THEN "client"
    ELSE "nil"

\* The goroutine of line 63 as setupPubSubSubscriber leaves it for server i:
\* created, not yet run. err is the variable of line 57 the callbacks share.
NewAdapter(i) ==
    LET idParts == SplitN(servers[i].GcpPubsubSubscription, "/", 4) IN
    [ key       |-> servers[i].GcpPubsubSubscription,
      projectID |-> idParts[2],
      subID     |-> idParts[4],
      server    |-> i,
      pc        |-> "spawned",
      sleepLeft |-> 0,
      err       |-> "nil",
      cbs       |-> {} ]

\* The lookup of lines 127-130 finding nothing.
HasHandlerNever(sub) == FALSE

\* The map tested for any key, not for the server's.
HasHandlerAnyKey(sub) == gcpPubSubHandlers # {}

\* Lines 127-130: the subscription already has a receiver.
HasHandler(sub) == sub \in gcpPubSubHandlers

\* The test of line 133 left out: any error is returned.
ReturnsErrorAlways(err) == err # "nil"

\* Lines 133-135 left out: no error is returned.
ReturnsErrorNever(err) == FALSE

\* Lines 133-135: the error is returned to the caller.
ReturnsError(err) == testRun /\ err # "nil"

\* One iteration of the loop of line 124, the call of setupPubSubSubscriber
\* included, or the return of line 145 after the last server.
SetupStep ==
    /\ pc = "loop"
    /\ IF idx > Len(servers)
       THEN /\ pc' = "returned"
            /\ UNCHANGED <<idx, retErr, gcpPubSubHandlers, warned, attempted,
                           adapters>>
       ELSE LET sub == servers[idx].GcpPubsubSubscription
                err == SetupError(idx)
            IN  IF sub = SubNone \/ HasHandler(sub)
                THEN /\ idx' = idx + 1
                     /\ UNCHANGED <<pc, retErr, gcpPubSubHandlers, warned,
                                    attempted, adapters>>
                ELSE IF err # "nil"
                THEN IF ReturnsError(err)
                     THEN /\ pc' = "returned"
                          /\ retErr' = "err"
                          /\ attempted' = attempted \cup {idx}
                          /\ UNCHANGED <<idx, gcpPubSubHandlers, warned, adapters>>
                     ELSE /\ warned' = warned \cup {idx}
                          /\ attempted' = attempted \cup {idx}
                          /\ idx' = idx + 1
                          /\ UNCHANGED <<pc, retErr, gcpPubSubHandlers, adapters>>
                ELSE /\ adapters' = Append(adapters, NewAdapter(idx))
                     /\ gcpPubSubHandlers' = gcpPubSubHandlers \cup {sub}
                     /\ attempted' = attempted \cup {idx}
                     /\ idx' = idx + 1
                     /\ UNCHANGED <<pc, retErr, warned>>
    /\ UNCHANGED << inputVars, gcpLogStream, transformerVars, parsedLogStream,
                    cancelled, wg, now, nmsgs, acks >>

(***************************************************************************)
(* the receive goroutine of setupPubSubSubscriber, lines 63-112            *)
(***************************************************************************)
Adapters == 1..Len(adapters)

\* Lines 64-67: wg.Add(1) runs in the goroutine, then the first sub.Receive.
AdapterStart(a) ==
    /\ adapters[a].pc = "spawned"
    /\ wg' = wg + 1
    /\ adapters' = [adapters EXCEPT ![a].pc = "receiving"]
    /\ UNCHANGED << inputVars, setupVars, gcpLogStream, transformerVars,
                    parsedLogStream, cancelled, now, nmsgs, acks >>

\* The callback not acknowledging its message.
AckNever(n) == n

\* pubsubMsg.Ack(), line 68, on a message acknowledged n times so far.
Ack(n) == n + 1

\* Lines 67-71: sub.Receive hands message d to a new callback, which
\* acknowledges it, decodes it and assigns the shared err. Receive runs
\* callbacks concurrently, each in its own goroutine. decoded is what
\* json.Unmarshal returned to this callback.
CallbackStart(a, d) ==
    /\ adapters[a].pc = "receiving"
    /\ Cardinality(adapters[a].cbs) < MaxCallbacks
    /\ d \in pool
    /\ nmsgs < budget
    /\ nmsgs' = nmsgs + 1
    /\ acks' = Append(acks, Ack(0))
    /\ adapters' =
         [adapters EXCEPT
            ![a].err = Unmarshal(d).err,
            ![a].cbs = @ \cup {[ id |-> nmsgs + 1, stage |-> "decoded",
                                 msg |-> Unmarshal(d).msg,
                                 decoded |-> Unmarshal(d).err ]}]
    /\ UNCHANGED << inputVars, setupVars, gcpLogStream, transformerVars,
                    parsedLogStream, cancelled, wg, now >>

\* if err != nil, line 72: the callback reads the shared err.
DecodeFailed(a) == adapters[a].err # "nil"

\* Lines 72-95: the callback returns on a decode error or a filter, or goes
\* on to the send of line 97.
CallbackFilter(a, cb) ==
    /\ cb \in adapters[a].cbs
    /\ cb.stage = "decoded"
    /\ adapters' =
         [adapters EXCEPT ![a].cbs =
            IF DecodeFailed(a) \/ ~ Accepts(cb.msg)
            THEN @ \ {cb}
            ELSE (@ \ {cb}) \cup {[cb EXCEPT !.stage = "send"]}]
    /\ UNCHANGED << inputVars, setupVars, gcpLogStream, transformerVars,
                    parsedLogStream, cancelled, wg, now, nmsgs, acks >>

\* A send that never waits for room.
CanSendAlways(ch, cap) == TRUE

\* The send of line 97 can proceed: the channel has room.
CanSend(ch, cap) == Len(ch) < cap

\* Lines 97-103: the item goes on gcpLogStream and the callback returns.
\* id is the message's number, kept to tell items apart, ts the timestamp
\* string OccurredAt was parsed from, and from the adapter that sent it.
CallbackSend(a, cb) ==
    /\ cb \in adapters[a].cbs
    /\ cb.stage = "send"
    /\ CanSend(gcpLogStream, LogStreamBufferLen)
    /\ gcpLogStream' =
         Append(gcpLogStream,
                [ GcpProjectID          |-> LogStreamItem(cb.msg).GcpProjectID,
                  GcpCloudSQLInstanceID |-> LogStreamItem(cb.msg).GcpCloudSQLInstanceID,
                  Content               |-> LogStreamItem(cb.msg).Content,
                  OccurredAt            |-> LogStreamItem(cb.msg).OccurredAt,
                  id                    |-> cb.id,
                  ts                    |-> cb.msg.Timestamp,
                  from                  |-> a ])
    /\ adapters' = [adapters EXCEPT ![a].cbs = @ \ {cb}]
    /\ UNCHANGED << inputVars, setupVars, transformerVars, parsedLogStream,
                    cancelled, wg, now, nmsgs, acks >>

\* What sub.Receive may return: nil or context.Canceled once ctx is done,
\* an error of the transport before.
ReceiveResults == IF cancelled THEN {"nil", "canceled"} ELSE {"err"}

\* The loop ending on any result.
LoopEndsAlways(res) == TRUE

\* Line 104: the loop ends on this result of sub.Receive.
LoopEnds(res) == res = "nil" \/ res = "canceled"

\* The goroutine cancelling ctx when sub.Receive returns an error.
ReceiveReturnCancels(a, res) ==
    /\ adapters[a].pc = "receiving"
    /\ adapters[a].cbs = {}
    /\ res \in ReceiveResults
    /\ IF res = "nil" \/ res = "canceled"
       THEN /\ adapters' = [adapters EXCEPT ![a].pc = "done"]
            /\ wg' = wg - 1
            /\ cancelled' = cancelled
       ELSE /\ adapters' = [adapters EXCEPT ![a].pc = "sleep",
                                            ![a].sleepLeft = 1 * Minute]
            /\ wg' = wg
            /\ cancelled' = TRUE
    /\ UNCHANGED << inputVars, setupVars, gcpLogStream, transformerVars,
                    parsedLogStream, now, nmsgs, acks >>

\* Lines 104-111: sub.Receive returns res, which it does once every callback
\* has returned. The goroutine ends with wg.Done, or logs the error and
\* sleeps a minute.
ReceiveReturn(a, res) ==
    /\ adapters[a].pc = "receiving"
    /\ adapters[a].cbs = {}
    /\ res \in ReceiveResults
    /\ IF LoopEnds(res)
       THEN /\ adapters' = [adapters EXCEPT ![a].pc = "done"]
            /\ wg' = wg - 1
       ELSE /\ adapters' = [adapters EXCEPT ![a].pc = "sleep",
                                            ![a].sleepLeft = 1 * Minute]
            /\ wg' = wg
    /\ UNCHANGED << inputVars, setupVars, gcpLogStream, transformerVars,
                    parsedLogStream, cancelled, now, nmsgs, acks >>

\* time.Sleep of line 109 is over.
SleepOver(a) == adapters[a].sleepLeft = 0

\* Lines 109, 65-67: the sleep ends and the loop calls sub.Receive again.
Wake(a) ==
    /\ adapters[a].pc = "sleep"
    /\ SleepOver(a)
    /\ adapters' = [adapters EXCEPT ![a].pc = "receiving"]
    /\ UNCHANGED << inputVars, setupVars, gcpLogStream, transformerVars,
                    parsedLogStream, cancelled, wg, now, nmsgs, acks >>

(***************************************************************************)
(* the transformer goroutine of setupLogTransformer, lines 150-187         *)
(***************************************************************************)
\* Line 154
Cutoff(t) == t - 1 * Minute

\* Line 154: the goroutine starts and fixes linesNewerThan.
TransformerStart ==
    /\ tpc = "spawned"
    /\ tpc' = "select"
    /\ linesNewerThan' = Cutoff(now)
    /\ UNCHANGED << inputVars, setupVars, adapters, gcpLogStream, cur, ti,
                    sent, parsedLogStream, cancelled, wg, now, nmsgs, acks >>

\* Lines 158-159, 151: ctx.Done() is chosen; the deferred wg.Done runs.
TransformerCancel ==
    /\ tpc = "select"
    /\ cancelled
    /\ tpc' = "done"
    /\ wg' = wg - 1
    /\ UNCHANGED << inputVars, setupVars, adapters, gcpLogStream,
                    linesNewerThan, cur, ti, sent, parsedLogStream,
                    cancelled, now, nmsgs, acks >>

\* The test of line 176 left out.
TooOldNever(t) == FALSE

\* The time window of line 176 taken anew from the clock for each item.
TooOldNow(t) == ~ IsZero(t) /\ Before(t, Cutoff(now))

\* Line 176: the line is outside the time window.
TooOld(t) == ~ IsZero(t) /\ Before(t, linesNewerThan)

\* Line 181: server s is one the item belongs to.
Matches(item, s) ==
    /\ item.GcpProjectID = servers[s].GcpProjectID
    /\ item.GcpCloudSQLInstanceID = servers[s].GcpCloudSQLInstanceID

\* The loop of line 180 ending at its first match.
FirstMatchOnly(item, s) ==
    IF s = 1 /\ \E m \in 1..Len(servers) : Matches(item, m)
    THEN CHOOSE m \in 1..Len(servers) :
            Matches(item, m) /\ \A n \in 1..(m - 1) : ~ Matches(item, n)
    ELSE Len(servers) + 1

RECURSIVE NextMatch(_, _)
\* The first server at or after s that the item matches, Len(servers) + 1
\* when none: where the loop of line 180 sends next.
NextMatch(item, s) ==
    IF s > Len(servers) THEN s
    ELSE IF Matches(item, s) THEN s
    ELSE NextMatch(item, s + 1)

\* Lines 169-172 left out: a line that does not parse goes on.
SurvivesUnparsed(item) == ~ TooOld(item.OccurredAt)

\* Lines 168-178: the item is parsed and within the time window.
Survives(item) ==
    /\ ParseLogLineWithPrefix("", WithNewline(item.Content)).ok
    /\ ~ TooOld(item.OccurredAt)

\* The transformer returning, where lines 171 and 177 continue, on an item
\* that does not parse or is outside the time window.
TransformerRecvReturns ==
    /\ tpc = "select"
    /\ gcpLogStream # <<>>
    /\ gcpLogStream' = Tail(gcpLogStream)
    /\ cur' = Head(gcpLogStream)
    /\ sent' = <<>>
    /\ ti' = IF Survives(Head(gcpLogStream))
             THEN NextMatch(Head(gcpLogStream), 1)
             ELSE Len(servers) + 1
    /\ tpc' = IF ~ Survives(Head(gcpLogStream)) THEN "done"
              ELSE IF ti' <= Len(servers) THEN "route" ELSE "select"
    /\ wg' = IF ~ Survives(Head(gcpLogStream)) THEN wg - 1 ELSE wg
    /\ UNCHANGED << inputVars, setupVars, adapters, linesNewerThan,
                    parsedLogStream, cancelled, now, nmsgs, acks >>

\* Lines 160-181: the transformer takes an item, parses and filters it, and
\* goes to the first send of the loop of line 180, if any.
TransformerRecv ==
    /\ tpc = "select"
    /\ gcpLogStream # <<>>
    /\ gcpLogStream' = Tail(gcpLogStream)
    /\ cur' = Head(gcpLogStream)
    /\ sent' = <<>>
    /\ ti' = IF Survives(Head(gcpLogStream))
             THEN NextMatch(Head(gcpLogStream), 1)
             ELSE Len(servers) + 1
    /\ tpc' = IF ti' <= Len(servers) THEN "route" ELSE "select"
    /\ UNCHANGED << inputVars, setupVars, adapters, linesNewerThan,
                    parsedLogStream, cancelled, wg, now, nmsgs, acks >>

\* state.ParsedLogStreamItem for server s, lines 173, 182.
ParsedLogStreamItem(item, s) ==
    [ Identifier |-> servers[s].Identifier,
      LogLine    |-> [ ParseLogLineWithPrefix("", WithNewline(item.Content)).logLine
                         EXCEPT !.OccurredAt = item.OccurredAt ],
      id         |-> item.id ]

\* Lines 180-184: the send of line 182 for server ti, then on to the next
\* matching server or back to the select.
TransformerSend ==
    /\ tpc = "route"
    /\ CanSend(parsedLogStream, OutBufferLen)
    /\ parsedLogStream' = Append(parsedLogStream, ParsedLogStreamItem(cur, ti))
    /\ sent' = Append(sent, servers[ti].Identifier)
    /\ ti' = NextMatch(cur, ti + 1)
    /\ tpc' = IF ti' <= Len(servers) THEN "route" ELSE "select"
    /\ UNCHANGED << inputVars, setupVars, adapters, gcpLogStream,
                    linesNewerThan, cur, cancelled, wg, now, nmsgs, acks >>

(***************************************************************************)
(* the caller and the clock                                                *)
(***************************************************************************)
\* The caller's consumer takes a line from parsedLogStream.
Consume ==
    /\ parsedLogStream # <<>>
    /\ parsedLogStream' = Tail(parsedLogStream)
    /\ UNCHANGED << inputVars, setupVars, adapters, gcpLogStream,
                    transformerVars, cancelled, wg, now, nmsgs, acks >>

\* The caller cancels ctx.
Cancel ==
    /\ ~ cancelled
    /\ cancelled' = TRUE
    /\ UNCHANGED << inputVars, setupVars, adapters, gcpLogStream,
                    transformerVars, parsedLogStream, wg, now, nmsgs, acks >>

\* The clock has a reader to come: line 154 is its only one.
ClockRead == tpc \in {"none", "spawned"}

\* A minute passes: the sleeps of line 109 come a minute nearer their end,
\* and the clock advances, up to MaxTime, as long as it is read or slept on.
Tick ==
    /\ \/ ClockRead /\ now < MaxTime
       \/ \E a \in Adapters : adapters[a].pc = "sleep" /\ adapters[a].sleepLeft > 0
    /\ now' = IF now < MaxTime THEN now + 1 * Minute ELSE now
    /\ adapters' =
         [a \in Adapters |->
            IF adapters[a].sleepLeft > 0
            THEN [adapters[a] EXCEPT !.sleepLeft = @ - 1 * Minute]
            ELSE adapters[a]]
    /\ UNCHANGED << inputVars, setupVars, gcpLogStream, transformerVars,
                    parsedLogStream, cancelled, wg, nmsgs, acks >>

Next ==
    \/ SetupStart
    \/ SetupStep
    \/ \E a \in Adapters : AdapterStart(a)
    \/ \E a \in Adapters : \E d \in PubsubData : CallbackStart(a, d)
    \/ \E a \in Adapters : \E cb \in adapters[a].cbs : CallbackFilter(a, cb)
    \/ \E a \in Adapters : \E cb \in adapters[a].cbs : CallbackSend(a, cb)
    \/ \E a \in Adapters : \E res \in {"nil", "canceled", "err"} : ReceiveReturn(a, res)
    \/ \E a \in Adapters : Wake(a)
    \/ TransformerStart
    \/ TransformerCancel
    \/ TransformerRecv
    \/ TransformerSend
    \/ Consume
    \/ Cancel
    \/ Tick

Spec == Init /\ [][Next]_vars

\* The scheduler runs every goroutine that can take a step, the caller
\* keeps taking lines from parsedLogStream, time passes, and sub.Receive
\* returns once ctx is done and its callbacks have returned. Messages,
\* transport errors and the cancellation come when they come.
Fairness ==
    /\ WF_vars(SetupStart)
    /\ WF_vars(SetupStep)
    /\ \A a \in 1..NumServers :
          /\ WF_vars(a \in Adapters /\ AdapterStart(a))
          /\ WF_vars(a \in Adapters /\ \E cb \in adapters[a].cbs : CallbackFilter(a, cb))
          /\ WF_vars(a \in Adapters /\ \E cb \in adapters[a].cbs : CallbackSend(a, cb))
          /\ WF_vars(a \in Adapters /\ ReceiveReturn(a, "nil"))
          /\ WF_vars(a \in Adapters /\ Wake(a))
    /\ WF_vars(TransformerStart)
    /\ WF_vars(TransformerCancel)
    /\ WF_vars(TransformerRecv)
    /\ WF_vars(TransformerSend)
    /\ WF_vars(Consume)
    /\ WF_vars(Tick)

\* A running collector under a fair scheduler.
FairSpec == Init /\ [][Next]_vars /\ Fairness

\* The transformer over every accepted message.
RouteSpec == RouteInit /\ [][Next]_vars

\* The callback over every message.
FilterSpec == FilterInit /\ [][Next]_vars

\* SetupLogSubscriber over every configuration.
SetupSpec == SetupInit /\ [][Next]_vars

(***************************************************************************)
(* SetupLogSubscriber: what it starts                                      *)
(***************************************************************************)
\* The servers that name subscription sub.
Referencing(sub) ==
    { i \in 1..Len(servers) : servers[i].GcpPubsubSubscription = sub }

\* The adapters started for subscription sub.
AdaptersOf(sub) == { a \in Adapters : adapters[a].key = sub }

\* The well-formed subscriptions that two or more servers name.
SharedSubs ==
    { sub \in Subscriptions :
        Count(sub, "/") = 3 /\ Cardinality(Referencing(sub)) >= 2 }

\* C1 as stated: once SetupLogSubscriber has returned, every well-formed
\* subscription that two or more servers name has exactly one adapter.
C1_ExactlyOneAdapter ==
    pc = "returned" =>
        \A sub \in SharedSubs : Cardinality(AdaptersOf(sub)) = 1

\* C1, amended: no two adapters ever have the same subscription, and once
\* SetupLogSubscriber has returned no error, a well-formed subscription
\* that two or more servers name has one adapter when setup succeeds for
\* one of these servers, and none otherwise.
C1_AtMostOneAdapter ==
    /\ \A a, b \in Adapters : adapters[a].key = adapters[b].key => a = b
    /\ (pc = "returned" /\ retErr = "nil") =>
          \A sub \in SharedSubs :
             Cardinality(AdaptersOf(sub)) =
                IF \E i \in Referencing(sub) : SetupError(i) = "nil" THEN 1 ELSE 0

\* Three servers name subscription a, setup succeeds for each, and one
\* adapter was started, for the first.
C1_Witness ==
    /\ pc = "returned"
    /\ Referencing(SubA) = 1..Len(servers)
    /\ newClientErr = {}
    /\ Cardinality(AdaptersOf(SubA)) = 1
    /\ adapters[1].server = 1

\* The servers whose setup fails when the loop reaches them: no earlier
\* server with the same subscription got its adapter.
FailingServers ==
    { i \in 1..Len(servers) :
        /\ servers[i].GcpPubsubSubscription # SubNone
        /\ SetupError(i) # "nil"
        /\ ~ \E j \in 1..(i - 1) :
               /\ servers[j].GcpPubsubSubscription = servers[i].GcpPubsubSubscription
               /\ SetupError(j) = "nil" }

\* C10: when not a test run, SetupLogSubscriber returns having warned about
\* exactly the servers whose setup failed and started an adapter for every
\* subscription whose setup succeeds for some server, wherever the failing
\* servers are in the list.
C10_FailureSkipsOnlyThatServer ==
    (pc = "returned" /\ ~ testRun) =>
        /\ warned = FailingServers
        /\ \A i \in 1..Len(servers) :
              ( servers[i].GcpPubsubSubscription # SubNone /\ SetupError(i) = "nil" )
                 => AdaptersOf(servers[i].GcpPubsubSubscription) # {}

\* The second server's setup failed, and the first and the third, with
\* another subscription, have their adapters.
C10_Witness ==
    /\ pc = "returned" /\ ~ testRun
    /\ warned = {2}
    /\ Len(adapters) = 2
    /\ adapters[1].server = 1 /\ adapters[2].server = 3
    /\ adapters[1].key # adapters[2].key

(***************************************************************************)
(* the transformer: filtering and routing                                  *)
(***************************************************************************)
\* The servers whose project and instance are the item's.
MatchingServers(item) == { s \in 1..Len(servers) : Matches(item, s) }

\* The transformer has taken an item and is done with it.
DoneWithCur == tpc = "select" /\ cur.id # 0

\* sent names every server of S once, and no other.
SentExactly(S) ==
    /\ Len(sent) = Cardinality(S)
    /\ { sent[j] : j \in 1..Len(sent) } = { servers[s].Identifier : s \in S }

\* C2: when the transformer is done with an item that parsed and passed
\* the time window, it has sent one line for each of the k servers the
\* item matches, with that server's Identifier, and no other line; while it
\* is sending, it has sent to matching servers only, each at most once.
C2_OneLinePerMatchingServer ==
    /\ (DoneWithCur /\ Survives(cur)) => SentExactly(MatchingServers(cur))
    /\ \A j \in 1..Len(sent) :
          /\ \E s \in MatchingServers(cur) : servers[s].Identifier = sent[j]
          /\ \A l \in 1..Len(sent) : sent[l] = sent[j] => l = j

\* An item of instance i1, which two servers monitor, went to both.
C2_Witness ==
    /\ DoneWithCur /\ Survives(cur)
    /\ Cardinality(MatchingServers(cur)) = 2
    /\ sent = <<1, 2>>

\* C3: a line whose timestamp is known and before linesNewerThan is never
\* on parsedLogStream, and the transformer sends nothing for an item with
\* such a timestamp; linesNewerThan is a minute before an instant at which
\* the transformer may have started.
C3_StaleNeverSent ==
    /\ \A j \in 1..Len(parsedLogStream) :
          LET t == parsedLogStream[j].LogLine.OccurredAt IN
          t = 0 \/ t >= linesNewerThan
    /\ (cur.id # 0 /\ cur.OccurredAt # 0 /\ cur.OccurredAt < linesNewerThan)
          => (sent = <<>> /\ tpc # "route")
    /\ tpc \in {"select", "route", "done"}
          => \E t \in (3 * Minute)..now : linesNewerThan = t - 1 * Minute

\* The transformer dropped an item of instance i1, which two servers
\* monitor, whose timestamp is before linesNewerThan.
C3_Witness ==
    /\ DoneWithCur
    /\ cur.OccurredAt # 0 /\ cur.OccurredAt < linesNewerThan
    /\ Cardinality(MatchingServers(cur)) = 2
    /\ ParseLogLineWithPrefix("", WithNewline(cur.Content)).ok
    /\ sent = <<>>

\* C4: an item whose timestamp string did not parse has the zero
\* OccurredAt, and when the transformer is done with an item of zero
\* OccurredAt whose line parsed, it has sent one line to every matching
\* server, whatever linesNewerThan is.
C4_ZeroTimeNotFiltered ==
    /\ \A j \in 1..Len(gcpLogStream) :
          gcpLogStream[j].ts \notin DOMAIN TimestampValue
             => gcpLogStream[j].OccurredAt = 0
    /\ ( DoneWithCur /\ cur.OccurredAt = 0
         /\ ParseLogLineWithPrefix("", WithNewline(cur.Content)).ok )
          => SentExactly(MatchingServers(cur))

\* An item whose timestamp did not parse went to both servers of i1.
C4_Witness ==
    /\ DoneWithCur
    /\ cur.ts = "yesterday" /\ cur.OccurredAt = 0
    /\ linesNewerThan > 0
    /\ sent = <<1, 2>>

(***************************************************************************)
(* delivery, shutdown and retry                                            *)
(***************************************************************************)
\* The item of message id is on gcpLogStream, the transformer has fixed its
\* time window, and the item parses and is within the window.
Pending(id) ==
    /\ tpc \in {"select", "route", "done"}
    /\ \E j \in 1..Len(gcpLogStream) :
          gcpLogStream[j].id = id /\ Survives(gcpLogStream[j])

\* The transformer has sent the item of message id to every matching server.
Delivered(id) ==
    DoneWithCur /\ cur.id = id /\ SentExactly(MatchingServers(cur))

\* C5 as stated: with parsedLogStream being consumed, every item on
\* gcpLogStream that parses and is within the time window is eventually
\* sent to every matching server.
C5_EveryItemDelivered ==
    \A id \in 1..MaxMsgs : Pending(id) ~> Delivered(id)

\* C5, amended: with parsedLogStream being consumed, every item on
\* gcpLogStream that parses and is within the time window is eventually
\* sent to every matching server, unless ctx is cancelled first.
C5_DeliveredUnlessCancelled ==
    \A id \in 1..MaxMsgs : Pending(id) ~> (Delivered(id) \/ cancelled)

\* The item of the second message went to both servers of instance i1,
\* with ctx not cancelled.
C5_Witness ==
    /\ Delivered(2)
    /\ sent = <<1, 2>>
    /\ ~ cancelled

\* Every goroutine SetupLogSubscriber started has returned.
AllReturned ==
    /\ tpc = "done"
    /\ \A a \in Adapters : adapters[a].pc = "done"

\* C6: once ctx is cancelled and SetupLogSubscriber has returned, every
\* adapter goroutine and the transformer eventually return, and the
\* WaitGroup's counter reaches zero.
C6_CancelStopsEveryWorker ==
    (cancelled /\ pc = "returned") ~> (AllReturned /\ wg = 0)

\* C7: after SetupLogSubscriber has returned, the WaitGroup's counter is
\* zero only when every goroutine it started has returned, and the counter
\* is never negative.
C7_BarrierCountsEveryWorker ==
    /\ wg >= 0
    /\ (pc = "returned" /\ wg = 0) => AllReturned

\* C8: an adapter whose sub.Receive returns a transport error sleeps a
\* minute and calls sub.Receive again, on the same subscription: it ends
\* only from sub.Receive and with ctx cancelled, it leaves sub.Receive
\* otherwise for a sleep of a minute, it leaves the sleep only for
\* sub.Receive and only when the minute has passed, and no step changes an
\* adapter's subscription or, but for SetupLogSubscriber's, adds an adapter;
\* and a sleeping adapter does call sub.Receive again.
C8_RetryAfterError ==
    /\ [][ /\ \A a \in Adapters :
                LET p == adapters[a].pc
                    q == adapters'[a].pc
                IN  /\ Len(adapters') >= Len(adapters)
                    /\ adapters'[a].key = adapters[a].key
                    /\ (q = "done" /\ p # "done") => (p = "receiving" /\ cancelled)
                    /\ (p = "receiving" /\ q # "receiving" /\ q # "done")
                          => (q = "sleep" /\ adapters'[a].sleepLeft = 1 * Minute)
                    /\ p = "sleep" => q \in {"sleep", "receiving"}
                    /\ (p = "sleep" /\ q = "receiving")
                          => adapters[a].sleepLeft = 0
           /\ Len(adapters') # Len(adapters) => pc = "loop"
         ]_vars
    /\ \A a \in 1..NumServers :
          (a \in Adapters /\ adapters[a].pc = "sleep")
             ~> (a \in Adapters /\ adapters[a].pc = "receiving")

\* Both adapters have slept their minute after an error of sub.Receive and
\* are about to call it again; there are no more adapters than before.
C8_Witness ==
    /\ pc = "returned"
    /\ Len(adapters) = 2
    /\ \A a \in Adapters : adapters[a].pc = "sleep" /\ adapters[a].sleepLeft = 0
    /\ ~ cancelled

\* C9: once ctx is cancelled, no adapter goes to sleep for a retry or calls
\* sub.Receive again after one.
C9_NoRetryOnceCancelled ==
    [][ cancelled =>
          \A a \in Adapters :
             /\ (adapters'[a].pc = "sleep") => (adapters[a].pc = "sleep")
             /\ (adapters'[a].pc = "receiving")
                   => (adapters[a].pc \in {"receiving", "spawned"})
      ]_vars

(***************************************************************************)
(* SetupLogSubscriber: what it returns and what it attempts                *)
(***************************************************************************)
\* The least element of a non-empty set of numbers.
Least(S) == CHOOSE i \in S : \A j \in S : i <= j

\* C11: SetupLogSubscriber returns an error exactly when it is a test run
\* and a call of setupPubSubSubscriber fails; it then returns at the first
\* server whose setup fails, having warned about none and called
\* setupPubSubSubscriber for no later server. When not a test run it
\* returns no error.
C11_ErrorOnlyInTestRun ==
    pc = "returned" =>
        /\ retErr = "err" <=> (testRun /\ FailingServers # {})
        /\ retErr = "err" =>
              /\ idx = Least(FailingServers)
              /\ attempted \subseteq 1..idx
              /\ \A a \in Adapters : adapters[a].server < idx
              /\ warned = {}
        /\ ~ testRun => retErr = "nil"

\* A test run returned the error of the second server; the third, whose
\* subscription is another and well formed, was not tried.
C11_Witness ==
    /\ pc = "returned" /\ testRun /\ retErr = "err"
    /\ idx = 2
    /\ attempted = {1, 2}
    /\ Len(adapters) = 1
    /\ SetupError(3) = "nil"
    /\ servers[3].GcpPubsubSubscription # servers[1].GcpPubsubSubscription

\* The servers setupPubSubSubscriber was called for with subscription sub.
AttemptsOf(sub) ==
    { i \in attempted : servers[i].GcpPubsubSubscription = sub }

\* C12 as stated: setupPubSubSubscriber is called at most once for each
\* subscription, whether or not the call succeeded.
C12_OneAttemptPerKey ==
    \A sub \in Subscriptions : Cardinality(AttemptsOf(sub)) <= 1

\* C12, amended: the map holds the subscriptions whose setup has succeeded;
\* setupPubSubSubscriber is called again for a subscription only after
\* every earlier call for it failed, so it succeeds at most once for each;
\* and when not a test run it has been called, on return, for every server
\* with a subscription for which no earlier server's setup succeeds.
C12_OneSuccessPerKey ==
    /\ gcpPubSubHandlers =
          { servers[i].GcpPubsubSubscription :
              i \in { j \in attempted : SetupError(j) = "nil" } }
    /\ \A i, j \in attempted :
          ( i < j /\ servers[i].GcpPubsubSubscription = servers[j].GcpPubsubSubscription )
             => SetupError(i) # "nil"
    /\ (pc = "returned" /\ ~ testRun) =>
          attempted =
             { i \in 1..Len(servers) :
                 /\ servers[i].GcpPubsubSubscription # SubNone
                 /\ ~ \E j \in 1..(i - 1) :
                        /\ servers[j].GcpPubsubSubscription = servers[i].GcpPubsubSubscription
                        /\ SetupError(j) = "nil" }

\* Three servers name subscription a: the first's setup failed, the
\* second's succeeded and the third was skipped.
C12_Witness ==
    /\ pc = "returned"
    /\ Referencing(SubA) = 1..Len(servers)
    /\ AttemptsOf(SubA) = {1, 2}
    /\ warned = {1}
    /\ Len(adapters) = 1 /\ adapters[1].server = 2

(***************************************************************************)
(* the order of one subscription's lines                                   *)
(***************************************************************************)
\* The elements of a sequence.
Range(q) == { q[k] : k \in 1..Len(q) }

\* The transformer has placed a line of item `item` for server s.
PlacedFor(item, s) ==
    /\ cur = item
    /\ tpc \in {"route", "select", "done"}
    /\ servers[s].Identifier \in Range(sent)

\* C13: with one subscription, hence one adapter, whose messages are
\* numbered as its callbacks receive them: when a line of a message has been
\* placed on parsedLogStream for a server, no earlier message's item that is
\* parsed, within the time window and of the same server is still waiting
\* on gcpLogStream behind it.
C13_AdapterOrderPreserved ==
    \A k \in 1..Len(gcpLogStream) : \A s \in 1..Len(servers) :
        ( /\ cur # NoItem
          /\ PlacedFor(cur, s)
          /\ Survives(gcpLogStream[k])
          /\ Matches(gcpLogStream[k], s) )
        => cur.id < gcpLogStream[k].id

(***************************************************************************)
(* the transformer and ctx                                                 *)
(***************************************************************************)
\* C14: once ctx is cancelled the transformer takes no item from
\* gcpLogStream, whatever the channel holds, and so places a line on
\* parsedLogStream only of the item it held when ctx was cancelled.
C14_NoItemTakenOnceCancelled ==
    [][ cancelled =>
          /\ Len(gcpLogStream') >= Len(gcpLogStream)
          /\ cur' = cur
      ]_vars

\* The line parser rejects the item's content, line 168.
Rejected(item) == ~ ParseLogLineWithPrefix("", WithNewline(item.Content)).ok

\* C15: no line on parsedLogStream is of a content the parser rejects, and
\* the step in which the transformer takes an item the parser rejects
\* leaves it at the select of line 157 with parsedLogStream, the time
\* window and the WaitGroup as they were: it has not returned, and the next
\* item finds it as if the rejected one had not come.
C15_RejectedLineSkipped ==
    [][ /\ \A k \in 1..Len(parsedLogStream') :
              ParseLogLineWithPrefix("", parsedLogStream'[k].LogLine.Content).ok
        /\ ( /\ tpc = "select"
             /\ gcpLogStream # <<>>
             /\ Rejected(Head(gcpLogStream))
             /\ gcpLogStream' = Tail(gcpLogStream) )
           => /\ tpc' = "select"
              /\ sent' = <<>>
              /\ parsedLogStream' = parsedLogStream
              /\ linesNewerThan' = linesNewerThan
              /\ wg' = wg
      ]_vars

\* The transformer has skipped an item the parser rejects and is at the
\* select again, where the next item, one it will route, is waiting.
C15_Witness ==
    /\ cur # NoItem /\ Rejected(cur)
    /\ tpc = "select" /\ sent = <<>>
    /\ ~ cancelled
    /\ gcpLogStream # <<>>
    /\ Survives(Head(gcpLogStream))
    /\ MatchingServers(Head(gcpLogStream)) # {}

(***************************************************************************)
(* acknowledgement                                                         *)
(***************************************************************************)
\* The messages whose callbacks are running in adapter a.
CallbackIds(a) == { cb.id : cb \in adapters[a].cbs }

\* The messages whose items are on gcpLogStream.
StreamIds == { gcpLogStream[k].id : k \in 1..Len(gcpLogStream) }

\* The messages past line 68: in a callback that has decoded, on
\* gcpLogStream, with the transformer or on parsedLogStream.
Handled ==
    UNION { CallbackIds(a) : a \in Adapters }
    \cup StreamIds
    \cup ({cur.id} \ {0})
    \cup { parsedLogStream[k].id : k \in 1..Len(parsedLogStream) }

\* C16: every message handed to a callback has been acknowledged once, and
\* was so before it was decoded, filtered or sent; a message is in one
\* callback or is one item, on gcpLogStream or with the transformer, never
\* two of these; and an adapter that is not in sub.Receive has no callback
\* left that could still send.
C16_AckedOnceThenAtMostOneItem ==
    /\ Len(acks) = nmsgs
    /\ \A i \in 1..nmsgs : acks[i] = 1
    /\ \A i \in Handled : i \in 1..Len(acks) /\ acks[i] = 1
    /\ Cardinality(StreamIds) = Len(gcpLogStream)
    /\ \A a \in Adapters :
          /\ CallbackIds(a) \cap (StreamIds \cup {cur.id}) = {}
          /\ Cardinality(CallbackIds(a)) = Cardinality(adapters[a].cbs)
          /\ \A b \in Adapters : a # b => CallbackIds(a) \cap CallbackIds(b) = {}
          /\ adapters[a].pc # "receiving" => adapters[a].cbs = {}
    /\ cur.id \notin StreamIds

\* Two messages were acknowledged, the first became an item the
\* transformer took, the callback of the second returned without sending,
\* and the adapter has stopped.
C16_Witness ==
    /\ nmsgs = 2 /\ acks = <<1, 1>>
    /\ Len(adapters) = 1 /\ adapters[1].pc = "done"
    /\ cur.id = 1
    /\ gcpLogStream = <<>>

(***************************************************************************)
(* one subscription failing, the others running                            *)
(***************************************************************************)
\* Adapter a is between a failed sub.Receive and the next: line 108 or the
\* sleep of line 109.
CoolingDown(a) == adapters[a].pc = "sleep"

\* The item of message id is on gcpLogStream, parses and is within the
\* time window, while an adapter other than its sender is cooling down.
PendingBeside(id) ==
    /\ Pending(id)
    /\ \E j \in 1..Len(gcpLogStream) :
          /\ gcpLogStream[j].id = id
          /\ \E a \in Adapters \ {gcpLogStream[j].from} : CoolingDown(a)

\* C17: the step in which an adapter's sub.Receive fails, and the step in
\* which its sleep ends, change nothing of any other adapter, of the
\* transformer, of the channels or of ctx; and, with parsedLogStream being
\* consumed, an item another adapter has sent while one is cooling down is
\* eventually sent to every matching server, unless ctx is cancelled first.
C17_FailureLeavesOthersRunning ==
    /\ [][ \A a \in Adapters :
              ( CoolingDown(a)' # CoolingDown(a) ) =>
                 /\ \A b \in Adapters \ {a} : adapters'[b] = adapters[b]
                 /\ UNCHANGED << transformerVars, gcpLogStream, parsedLogStream,
                                 cancelled >>
         ]_vars
    /\ \A id \in 1..MaxMsgs :
          PendingBeside(id) ~> (Delivered(id) \/ cancelled)

\* While the first adapter is asleep after a failure, an item the second
\* has sent has gone to both servers of instance i1.
C17_Witness ==
    /\ Len(adapters) = 2
    /\ CoolingDown(1) /\ adapters[1].sleepLeft > 0
    /\ adapters[2].pc = "receiving"
    /\ Delivered(cur.id) /\ cur.from = 2
    /\ sent = <<1, 2>>
    /\ ~ cancelled

(***************************************************************************)
(* the capacity of gcpLogStream                                            *)
(***************************************************************************)
\* A callback holding message id is at the send of line 97.
AtSend(id) ==
    \E a \in Adapters : \E cb \in adapters[a].cbs :
        cb.id = id /\ cb.stage = "send"

\* C18: gcpLogStream never holds more than LogStreamBufferLen items; it
\* changes only by an item added at its end or its head taken; a callback
\* at the send of line 97 leaves it only by adding its own item; and, with
\* the transformer taking items, the item of a callback waiting at the send
\* is eventually on the channel, unless ctx is cancelled first.
C18_BlockingSendLosesNothing ==
    /\ [][ /\ Len(gcpLogStream') <= LogStreamBufferLen
           /\ gcpLogStream' # gcpLogStream =>
                 \/ /\ Len(gcpLogStream') = Len(gcpLogStream) + 1
                    /\ SubSeq(gcpLogStream', 1, Len(gcpLogStream)) = gcpLogStream
                 \/ /\ gcpLogStream # <<>>
                    /\ gcpLogStream' = Tail(gcpLogStream)
           /\ \A a \in Adapters : \A cb \in adapters[a].cbs :
                 ( cb.stage = "send" /\ cb \notin adapters'[a].cbs ) =>
                    /\ Len(gcpLogStream') = Len(gcpLogStream) + 1
                    /\ gcpLogStream'[Len(gcpLogStream')].id = cb.id
                    /\ gcpLogStream'[Len(gcpLogStream')].Content = cb.msg.TextPayload
         ]_vars
    /\ \A id \in 1..MaxMsgs : AtSend(id) ~> (id \in StreamIds \/ cancelled)

\* gcpLogStream is full and a callback is waiting at the send of line 97.
C18_Witness ==
    /\ Len(gcpLogStream) = LogStreamBufferLen
    /\ \E id \in 1..MaxMsgs : AtSend(id) /\ id \notin StreamIds
    /\ ~ cancelled

(***************************************************************************)
(* what the callback sends                                                 *)
(***************************************************************************)
\* C19: a callback goes on to the send of line 97 exactly when its message
\* decoded and passes the filters of lines 77-93, and returns without
\* sending otherwise; sub.Receive, and with it the loop, is left for no
\* message.
C19_SendsIffDecodedAndAccepted ==
    [][ \A a \in Adapters :
          /\ \A cb \in adapters[a].cbs :
                ( cb.stage = "decoded" /\ cb \notin adapters'[a].cbs ) =>
                   ( [cb EXCEPT !.stage = "send"] \in adapters'[a].cbs
                       <=> ( cb.decoded = "nil" /\ Accepts(cb.msg) ) )
          /\ ( adapters[a].cbs # {} /\ adapters[a].pc = "receiving" )
                => adapters'[a].pc = "receiving"
      ]_vars

(***************************************************************************)
(* the time window                                                         *)
(***************************************************************************)
\* The transformer has passed line 154.
Started == tpc \in {"select", "route", "done"}

\* C20: linesNewerThan is set when the transformer starts, to the clock's
\* reading less a minute, and never changes afterwards; and whenever the
\* transformer takes an item, whatever the clock reads by then, it routes
\* it exactly when it parses, matches a server and its OccurredAt is zero
\* or not before that same linesNewerThan.
C20_CutoffFixedAtStart ==
    [][ /\ Started => linesNewerThan' = linesNewerThan
        /\ ( ~ Started /\ Started' ) => linesNewerThan' = now - 1 * Minute
        /\ ( /\ tpc = "select"
             /\ gcpLogStream # <<>>
             /\ gcpLogStream' = Tail(gcpLogStream) )
           => ( tpc' = "route"
                  <=> /\ ~ Rejected(Head(gcpLogStream))
                      /\ MatchingServers(Head(gcpLogStream)) # {}
                      /\ \/ IsZero(Head(gcpLogStream).OccurredAt)
                         \/ ~ Before(Head(gcpLogStream).OccurredAt, linesNewerThan) )
      ]_vars

\* After a failed sub.Receive and a minute's sleep the adapter is receiving
\* again, and the transformer has routed an item that is within the time
\* window fixed at its start but would be outside one taken from the clock
\* now.
C20_Witness ==
    /\ Len(adapters) = 1 /\ adapters[1].pc = "receiving"
    /\ now > linesNewerThan + 1 * Minute
    /\ tpc = "select" /\ sent # <<>>
    /\ ~ IsZero(cur.OccurredAt)
    /\ ~ Before(cur.OccurredAt, linesNewerThan)
    /\ Before(cur.OccurredAt, now - 1 * Minute)

====
